---- MODULE Spec2Model ----
(***************************************************************************)
(* Approvr: multi-party approval of proposals recorded on a consensus log. *)
(* The model covers the three operations of approvr-agent.js               *)
(* (createProposal, submitApproval, tallyApprovals) and the ledger they    *)
(* talk to through the three tools createTopic, submitMessage and          *)
(* getMessages.                                                            *)
(*                                                                         *)
(* A JavaScript string is a sequence of one-character strings, so that     *)
(* startsWith, substring, trim, split, sort and the description regexp are *)
(* computed character by character as the code computes them.              *)
(***************************************************************************)
EXTENDS Integers, Sequences, FiniteSets, TLC

VARIABLES
    proposal,   \* the caller's arguments: [description, approvers, threshold]
    created,    \* the topic identifiers that exist on the ledger
    ledger,     \* topic identifier -> the topic's messages, in consensus order
    create,     \* the createProposal call in flight (between its two awaits)
    memo,       \* topic identifier -> the memo the topic was created with
    result,     \* what the operation completed in the last step returned, with
                \* its inputs
    watched,    \* a caller's record of its last successful tally of WatchedTopic
    userData,   \* the bot's link map: Telegram user id -> linked account
    serverUserData, \* the server's link map: user id as a string -> linked account
    request     \* the /linkaccount message or /api/approve request handled in
                \* the last step

\* the state of api/index.js
server == <<userData, serverUserData, request>>

vars == <<proposal, created, ledger, memo, create, result, watched, userData,
          serverUserData, request>>

-----------------------------------------------------------------------------
(* Bounds of the model *)

\* messages on the ledger, all topics together
MaxMessages == 3

-----------------------------------------------------------------------------
(* Strings *)

\* the characters String.prototype.trim removes and \s matches
WhiteSpace == {" ", "\n", "\r", "\t"}

\* the characters the regexp dot does not match
LineTerminators == {"\n", "\r"}

\* UTF-16 code units of the characters in use (Array.prototype.sort's order)
CharCode ==
    ("\t" :> 9) @@ ("\n" :> 10) @@ ("\r" :> 13) @@ (" " :> 32) @@ ("," :> 44)
    @@ ("." :> 46) @@ ("0" :> 48) @@ ("1" :> 49) @@ ("2" :> 50) @@ ("3" :> 51)
    @@ ("4" :> 52) @@ ("5" :> 53) @@ ("6" :> 54) @@ ("7" :> 55) @@ ("8" :> 56)
    @@ ("9" :> 57) @@ (":" :> 58) @@ ("A" :> 65) @@ ("E" :> 69) @@ ("O" :> 79)
    @@ ("P" :> 80) @@ ("R" :> 82) @@ ("V" :> 86) @@ ("[" :> 91) @@ ("]" :> 93)
    @@ ("a" :> 97) @@ ("b" :> 98) @@ ("c" :> 99) @@ ("d" :> 100) @@ ("e" :> 101)
    @@ ("j" :> 106) @@ ("l" :> 108) @@ ("o" :> 111) @@ ("p" :> 112)
    @@ ("r" :> 114) @@ ("s" :> 115) @@ ("t" :> 116) @@ ("x" :> 120)

\* s.startsWith(p)
StartsWith(s, p) == Len(s) >= Len(p) /\ SubSeq(s, 1, Len(p)) = p

\* s.substring(n)
Substring(s, n) == SubSeq(s, n + 1, Len(s))

\* s.includes(c) for a one-character c
IncludesChar(s, c) == \E i \in 1..Len(s) : s[i] = c

RECURSIVE TrimStart(_)
TrimStart(s) ==
    IF s # <<>> /\ Head(s) \in WhiteSpace THEN TrimStart(Tail(s)) ELSE s

RECURSIVE TrimEnd(_)
TrimEnd(s) ==
    IF s # <<>> /\ s[Len(s)] \in WhiteSpace
    THEN TrimEnd(SubSeq(s, 1, Len(s) - 1))
    ELSE s

\* s.trim()
Trim(s) == TrimEnd(TrimStart(s))

\* arr.includes(x)
Includes(arr, x) == \E i \in 1..Len(arr) : arr[i] = x

\* arr.join(sep)
RECURSIVE Join(_, _)
Join(arr, sep) ==
    IF arr = <<>> THEN <<>>
    ELSE IF Len(arr) = 1 THEN arr[1]
    ELSE arr[1] \o sep \o Join(Tail(arr), sep)

\* content.split('\n')[0]
RECURSIVE FirstLine(_)
FirstLine(s) ==
    IF s = <<>> \/ Head(s) = "\n" THEN <<>>
    ELSE <<Head(s)>> \o FirstLine(Tail(s))

DigitChars == <<"0", "1", "2", "3", "4", "5", "6", "7", "8", "9">>

\* `${n}` and n.toString() for a non-negative integer
RECURSIVE NumberToString(_)
NumberToString(n) ==
    IF n < 10 THEN <<DigitChars[n + 1]>>
    ELSE NumberToString(n \div 10) \o <<DigitChars[(n % 10) + 1]>>

\* a < b in the order of the default Array.prototype.sort (by code unit)
RECURSIVE StringLess(_, _)
StringLess(a, b) ==
    IF b = <<>> THEN FALSE
    ELSE IF a = <<>> THEN TRUE
    ELSE IF Head(a) # Head(b) THEN CharCode[Head(a)] < CharCode[Head(b)]
    ELSE StringLess(Tail(a), Tail(b))

RECURSIVE InsertSorted(_, _)
InsertSorted(x, arr) ==
    IF arr = <<>> THEN <<x>>
    ELSE IF StringLess(x, Head(arr)) THEN <<x>> \o arr
    ELSE <<Head(arr)>> \o InsertSorted(x, Tail(arr))

\* arr.sort(): the array in code-unit order (a stable insertion from the end)
RECURSIVE Sort(_)
Sort(arr) ==
    IF arr = <<>> THEN <<>>
    ELSE InsertSorted(Head(arr), Sort(Tail(arr)))

-----------------------------------------------------------------------------
(* Identifiers and inputs *)

\* topic identifiers the ledger hands out, in this order
T1 == <<"0", ".", "0", ".", "1">>
T2 == <<"0", ".", "0", ".", "2">>
TopicIds == {T1, T2}

\* account identifiers; acctC is never a listed approver
acctA == <<"a">>
acctB == <<"b">>
acctC == <<"c">>
AccountIds == {acctA, acctB, acctC}

Descriptions == { <<"d">> }

\* the (approvers, threshold) pairs a caller passes
Quorums ==
    { [approvers |-> <<acctA, acctB>>, threshold |-> 2],
      [approvers |-> <<acctB, acctA>>, threshold |-> 1],
      [approvers |-> <<acctA, acctA>>, threshold |-> 2],
      [approvers |-> <<acctA, acctB>>, threshold |-> 0] }

Proposals ==
    { [approvers |-> q.approvers, threshold |-> q.threshold, description |-> d] :
        d \in Descriptions, q \in Quorums }

-----------------------------------------------------------------------------
(* The ledger *)

\* an item of a topic as getMessages reports it: an object with a string
\* `message`, an object without one, or something that is no object
MessageItem(content) == [kind |-> "message", message |-> content]
NoMessageItem == [kind |-> "noMessage", message |-> <<>>]
NonObjectItem == [kind |-> "nonObject", message |-> <<>>]

\* what writers other than this program leave on a topic
ForeignItems == { NoMessageItem }

\* number of messages on the ledger
LedgerSize == Len(ledger[T1]) + Len(ledger[T2])

\* the ledger after the consensus service appended item to topic t
Appended(t, item) == [ledger EXCEPT ![t] = Append(@, item)]

\* submit_topic_message_tool can complete: the topic exists (and the model has room)
CanAppend(t) == t \in created /\ LedgerSize < MaxMessages

-----------------------------------------------------------------------------
(* submitApproval *)

APPROVE == <<"A", "P", "P", "R", "O", "V", "E", ":">>

\* `APPROVE:${approverAccountId}`
approvalMessage(approverAccountId) == APPROVE \o approverAccountId

\* a step in which no operation returns
NoResult == [op |-> "none", status |-> "success"]

\* the value returned by a submitApproval that hides a failed invoke
submitApprovalResultHiding(topicId, approverAccountId, threw) ==
    [ op |-> "submitApproval",
      status |-> "success",
      topicId |-> topicId,
      threw |-> threw,
      accountId |-> approverAccountId ]

\* the value returned by submitApproval; threw: submitMessage.invoke failed.
\* A failed invoke rejects with an Error object, as the tools of the agent kit
\* do: the catch blocks read error.message.
submitApprovalResult(topicId, approverAccountId, threw) ==
    [ op |-> "submitApproval",
      status |-> IF threw THEN "error" ELSE "success",
      topicId |-> topicId,
      threw |-> threw,
      accountId |-> approverAccountId ]

\* a submitApproval that appends for listed approvers only
SubmitApprovalOkIfListed(topicId, approverAccountId) ==
    /\ CanAppend(topicId)
    /\ ledger' = IF Includes(proposal.approvers, approverAccountId)
                 THEN Appended(topicId, MessageItem(approvalMessage(approverAccountId)))
                 ELSE ledger
    /\ result' = submitApprovalResult(topicId, approverAccountId, FALSE)
    /\ UNCHANGED <<proposal, created, memo, create, watched>>

SubmitApprovalOk(topicId, approverAccountId) ==
    /\ CanAppend(topicId)
    /\ ledger' = Appended(topicId, MessageItem(approvalMessage(approverAccountId)))
    /\ result' = submitApprovalResult(topicId, approverAccountId, FALSE)
    /\ UNCHANGED <<proposal, created, memo, create, watched>>

SubmitApprovalFails(topicId, approverAccountId) ==
    /\ result' = submitApprovalResult(topicId, approverAccountId, TRUE)
    /\ UNCHANGED <<proposal, created, ledger, memo, create, watched>>

SubmitApproval(accountIds) ==
    \E topicId \in TopicIds, approverAccountId \in accountIds :
        \/ SubmitApprovalOk(topicId, approverAccountId)
        \/ SubmitApprovalFails(topicId, approverAccountId)

\* another writer appends to a topic
ForeignAppend(items) ==
    \E t \in TopicIds, item \in items :
        /\ CanAppend(t)
        /\ ledger' = Appended(t, item)
        /\ result' = NoResult
        /\ UNCHANGED <<proposal, created, memo, create, watched>>

-----------------------------------------------------------------------------
(* tallyApprovals: the response of getMessages *)

\* A response is a value or a string. wrap says which: "value" (the value
\* itself), "json" (a string that JSON.parse turns into the value) or
\* "unparsable" (a string JSON.parse rejects). type is the value's type:
\* "array", "object" (hasMessages: its `messages` field is an array) or
\* "other" (a number, a boolean, null, undefined, a string).
ArrayResponse(wrap, items) ==
    [items |-> items, wrap |-> wrap, type |-> "array", hasMessages |-> FALSE]
ObjectResponse(wrap, items) ==
    [items |-> items, wrap |-> wrap, type |-> "object", hasMessages |-> TRUE]
NoMessagesResponse(wrap) ==
    [items |-> <<>>, wrap |-> wrap, type |-> "object", hasMessages |-> FALSE]
OtherResponse(wrap) ==
    [items |-> <<>>, wrap |-> wrap, type |-> "other", hasMessages |-> FALSE]
UnparsableResponse ==
    [items |-> <<>>, wrap |-> "unparsable", type |-> "other", hasMessages |-> FALSE]

\* the responses that carry no message sequence
UnreadableResponses ==
    { NoMessagesResponse("value"), NoMessagesResponse("json"),
      OtherResponse("value"), OtherResponse("json"), UnparsableResponse }

\* every answer get_topic_messages_query_tool may give for topic t
AllReadResponses(t) ==
    IF t \in created
    THEN { ArrayResponse("value", ledger[t]), ArrayResponse("json", ledger[t]),
           ObjectResponse("value", ledger[t]), ObjectResponse("json", ledger[t]) }
         \cup UnreadableResponses
    ELSE UnreadableResponses

\* the answers seen in normal operation: the array, the JSON text of an
\* object with `messages`, an object without `messages`, an unparsable text
UsualReadResponses(t) ==
    AllReadResponses(t)
    \cap { ArrayResponse("value", ledger[t]), ObjectResponse("json", ledger[t]),
           NoMessagesResponse("value"), UnparsableResponse }

\* the array test without the `messages` branch of lines 266-270
HasMessageArrayBare(response) == response.type = "array"

\* Array.isArray(parsedMessagesResponse) \/ Array.isArray(parsedMessagesResponse.messages)
HasMessageArray(response) ==
    \/ response.type = "array"
    \/ response.type = "object" /\ response.hasMessages

\* the local `messages` after step 2 (lines 249-273): it starts as the array
\* [] and is replaced only by an array found in the parsed response
ExtractMessages(response) ==
    IF HasMessageArray(response)
    THEN [items |-> response.items, isArray |-> TRUE]
    ELSE [items |-> <<>>, isArray |-> TRUE]

\* step 2 of a tally that also rejects an empty array
ExtractThrowsOnEmpty(response) ==
    \/ response.wrap = "unparsable"
    \/ ExtractMessages(response).items = <<>>

\* step 2 throws: the string cannot be parsed, or `messages` is no array
ExtractThrows(response) ==
    \/ response.wrap = "unparsable"
    \/ ~ ExtractMessages(response).isArray

-----------------------------------------------------------------------------
(* tallyApprovals: counting *)

\* msgObj && typeof msgObj === 'object' && typeof msgObj.message === 'string'
IsMessageObject(msgObj) == msgObj.kind = "message"

\* messageContent.startsWith("APPROVE:")
IsApproval(messageContent) == StartsWith(messageContent, APPROVE)

\* the identifier of an approval, taken without trim()
ApprovalAccountIdUntrimmed(messageContent) == Substring(messageContent, Len(APPROVE))

\* messageContent.substring("APPROVE:".length).trim()
ApprovalAccountId(messageContent) == Trim(Substring(messageContent, Len(APPROVE)))

\* IsValidApproval without the membership test
IsValidApprovalOfAnyone(msgObj, approvers) ==
    /\ IsMessageObject(msgObj)
    /\ IsApproval(msgObj.message)

\* the approval is added to the set: approvers.includes(accountId)
IsValidApproval(msgObj, approvers) ==
    /\ IsMessageObject(msgObj)
    /\ IsApproval(msgObj.message)
    /\ Includes(approvers, ApprovalAccountId(msgObj.message))

\* validApprovals of a loop that stops at the first approval it rejects
validApprovalsUntilRejected(messages, approvers) ==
    LET rejected == { j \in 1..Len(messages) :
                        /\ IsMessageObject(messages[j])
                        /\ IsApproval(messages[j].message)
                        /\ ~ IsValidApproval(messages[j], approvers) }
    IN  { ApprovalAccountId(messages[i].message) :
            i \in { j \in 1..Len(messages) :
                      /\ IsValidApproval(messages[j], approvers)
                      /\ \A k \in rejected : j < k } }

\* validApprovals of a loop that stops at the first item it cannot read
validApprovalsUntilSkipped(messages, approvers) ==
    LET skipped == { j \in 1..Len(messages) : ~ IsMessageObject(messages[j]) }
    IN  { ApprovalAccountId(messages[i].message) :
            i \in { j \in 1..Len(messages) :
                      /\ IsValidApproval(messages[j], approvers)
                      /\ \A k \in skipped : j < k } }

\* validApprovals of a loop that adds every approving identifier
validApprovalsOfAnyone(messages, approvers) ==
    { ApprovalAccountId(messages[i].message) :
        i \in { j \in 1..Len(messages) :
                  IsMessageObject(messages[j]) /\ IsApproval(messages[j].message) } }

\* the Set validApprovals after the loop over messages
validApprovals(messages, approvers) ==
    { ApprovalAccountId(messages[i].message) :
        i \in { j \in 1..Len(messages) : IsValidApproval(messages[j], approvers) } }

\* approvalCount of a loop that pushes to an array instead of a Set
approvalCountPerMessage(messages, approvers) ==
    Cardinality({ j \in 1..Len(messages) : IsValidApproval(messages[j], approvers) })

\* approvalCount of a tally that counts the entries of approvers that approved
approvalCountPerEntry(messages, approvers) ==
    Cardinality({ i \in 1..Len(approvers) :
                    approvers[i] \in validApprovals(messages, approvers) })

\* validApprovals.size
approvalCount(messages, approvers) == Cardinality(validApprovals(messages, approvers))

\* isApproved with > for >=
isApprovedStrict(count, threshold) == count > threshold

\* isApproved of a tally that never approves under a threshold of 0
isApprovedPositive(count, threshold) == threshold > 0 /\ count >= threshold

\* approvalCount >= threshold
isApproved(count, threshold) == count >= threshold

-----------------------------------------------------------------------------
(* tallyApprovals: the report *)

PROPOSAL == <<"P", "r", "o", "p", "o", "s", "a", "l", ":">>

\* "Proposal details not found."
DetailsNotFound ==
    <<"P", "r", "o", "p", "o", "s", "a", "l", " ", "d", "e", "t", "a", "i", "l", "s",
      " ", "n", "o", "t", " ", "f", "o", "u", "n", "d", ".">>

NotAvailable == <<"N", "/", "A">>

\* msgObj is a message whose content starts with "Proposal:"
IsProposalMessage(msgObj) ==
    IsMessageObject(msgObj) /\ StartsWith(msgObj.message, PROPOSAL)

\* the indices of the Proposal messages
ProposalIndices(messages) ==
    { i \in 1..Len(messages) : IsProposalMessage(messages[i]) }

\* descLine.match(/^Proposal:\s*(.+)$/): the lengths k of a whitespace run
\* after the prefix that leave a non-empty rest without line terminators
DescMatchRuns(descLine) ==
    LET rest == Substring(descLine, Len(PROPOSAL)) IN
    { k \in 0..Len(rest) :
        /\ \A i \in 1..k : rest[i] \in WhiteSpace
        /\ k < Len(rest)
        /\ \A i \in (k + 1)..Len(rest) : rest[i] \notin LineTerminators }

\* descMatch[1] of a matching line: \s* is greedy, so the longest run wins
DescMatchGroup(descLine) ==
    LET rest == Substring(descLine, Len(PROPOSAL))
        runs == DescMatchRuns(descLine)
        k    == CHOOSE n \in runs : \A m \in runs : m <= n
    IN  Substring(rest, k)

\* proposalDescription of a search loop without the break: the last match
proposalDescriptionLast(messages) ==
    IF ProposalIndices(messages) = {} THEN DetailsNotFound
    ELSE LET last == CHOOSE i \in ProposalIndices(messages) :
                         \A j \in ProposalIndices(messages) : j <= i
             descLine == FirstLine(messages[last].message)
         IN  IF DescMatchRuns(descLine) # {}
             THEN Trim(DescMatchGroup(descLine))
             ELSE DetailsNotFound

\* the local proposalDescription after the search loop
proposalDescription(messages) ==
    IF ProposalIndices(messages) = {} THEN DetailsNotFound
    ELSE LET first == CHOOSE i \in ProposalIndices(messages) :
                          \A j \in ProposalIndices(messages) : i <= j
             descLine == FirstLine(messages[first].message)
         IN  IF DescMatchRuns(descLine) # {}
             THEN Trim(DescMatchGroup(descLine))
             ELSE DetailsNotFound

\* the local foundApproversList: the caller's array once a Proposal message
\* was found, the empty array otherwise
FoundProposal(messages) == ProposalIndices(messages) # {}

\* foundApproversList.sort(): sorts the caller's array in place when
\* foundApproversList is that array
foundApproversList(messages, approvers) ==
    IF FoundProposal(messages) THEN Sort(approvers) ELSE <<>>

foundThreshold(messages, threshold) ==
    IF FoundProposal(messages) THEN NumberToString(threshold) ELSE NotAvailable

\* one "- <approver> (approved)" / "- <approver> (not approved)" line
ApproverLine(approver, valid) ==
    [approver |-> approver, approved |-> approver \in valid]

\* the report of the approved branch (lines 329-384), by its parts
ApprovedReport(topicId, messages, approvers, threshold) ==
    LET valid == validApprovals(messages, approvers)
        list  == foundApproversList(messages, approvers)
    IN  [ approvers |-> [i \in 1..Len(list) |-> ApproverLine(list[i], valid)],
          threshold |-> foundThreshold(messages, threshold),
          kind |-> "approved",
          topicId |-> topicId,
          approvalCount |-> NumberToString(Cardinality(valid)),
          proposalDescription |-> proposalDescription(messages),
          needed |-> 0 ]

\* needed of a report that leaves out the approval being asked for
neededAfterNext(count, threshold) == threshold - count - 1

\* threshold - approvalCount
needed(count, threshold) == threshold - count

\* the report of the other branch (lines 385-392)
TallyReport(topicId, messages, approvers, threshold) ==
    LET count == approvalCount(messages, approvers) IN
    [ approvers |-> <<>>,
      threshold |-> NumberToString(threshold),
      kind |-> "tally",
      topicId |-> topicId,
      approvalCount |-> NumberToString(count),
      proposalDescription |-> <<>>,
      needed |-> needed(count, threshold) ]

ErrorReport(topicId) ==
    [ approvers |-> <<>>,
      threshold |-> <<>>,
      kind |-> "error",
      topicId |-> topicId,
      approvalCount |-> <<>>,
      proposalDescription |-> <<>>,
      needed |-> 0 ]

\* the caller's approvers array after the call
ApproversAfter(messages, approvers, threshold) ==
    IF isApproved(approvalCount(messages, approvers), threshold) /\ FoundProposal(messages)
    THEN Sort(approvers)
    ELSE approvers

-----------------------------------------------------------------------------
(* tallyApprovals *)

\* a catch block that computes isApproved from the default count
tallyErrorComparing(topicId, approvers, threshold, threw, response) ==
    [ approvers |-> approvers,
      threshold |-> threshold,
      message |-> ErrorReport(topicId),
      op |-> "tallyApprovals",
      status |-> "error",
      topicId |-> topicId,
      threw |-> threw,
      response |-> response,
      isApproved |-> 0 >= threshold,
      approvals |-> 0,
      approversAfter |-> approvers ]

\* the catch block (lines 405-408)
tallyError(topicId, approvers, threshold, threw, response) ==
    [ approvers |-> approvers,
      threshold |-> threshold,
      message |-> ErrorReport(topicId),
      op |-> "tallyApprovals",
      status |-> "error",
      topicId |-> topicId,
      threw |-> threw,
      response |-> response,
      isApproved |-> FALSE,
      approvals |-> 0,
      approversAfter |-> approvers ]

\* the return of the try block (lines 398-403)
tallySuccess(topicId, approvers, threshold, response) ==
    LET messages == ExtractMessages(response).items
        count    == approvalCount(messages, approvers)
    IN  [ approvers |-> approvers,
          threshold |-> threshold,
          message |-> IF isApproved(count, threshold)
                      THEN ApprovedReport(topicId, messages, approvers, threshold)
                      ELSE TallyReport(topicId, messages, approvers, threshold),
          op |-> "tallyApprovals",
          status |-> "success",
          topicId |-> topicId,
          threw |-> FALSE,
          response |-> response,
          isApproved |-> isApproved(count, threshold),
          approvals |-> count,
          approversAfter |-> ApproversAfter(messages, approvers, threshold) ]

\* a tally that fails on a message that is neither approval nor proposal
tallyApprovalsClassifying(topicId, approvers, threshold, threw, response) ==
    IF \/ threw
       \/ ExtractThrows(response)
       \/ \E i \in 1..Len(ExtractMessages(response).items) :
              LET msgObj == ExtractMessages(response).items[i]
              IN  /\ IsMessageObject(msgObj)
                  /\ ~ IsApproval(msgObj.message)
                  /\ ~ IsProposalMessage(msgObj)
    THEN tallyError(topicId, approvers, threshold, threw, response)
    ELSE tallySuccess(topicId, approvers, threshold, response)

\* the value returned by tallyApprovals; threw: getMessages.invoke failed
tallyApprovals(topicId, approvers, threshold, threw, response) ==
    IF threw \/ ExtractThrows(response)
    THEN tallyError(topicId, approvers, threshold, threw, response)
    ELSE tallySuccess(topicId, approvers, threshold, response)

\* the topic whose successive tallies a caller compares
WatchedTopic == T1

Unwatched == [isApproved |-> FALSE, approvals |-> 0, seen |-> FALSE]

\* the caller's record after tallyApprovals returned r
Watch(r) ==
    IF r.topicId = WatchedTopic /\ r.status = "success"
    THEN [isApproved |-> r.isApproved, approvals |-> r.approvals, seen |-> TRUE]
    ELSE watched

\* a call of tallyApprovals that also submits a message to the topic
TallyCallAppending(topicId, threw, response) ==
    /\ result' = tallyApprovals(topicId, proposal.approvers, proposal.threshold,
                                threw, response)
    /\ ledger' = IF CanAppend(topicId)
                 THEN Appended(topicId, MessageItem(approvalMessage(acctA)))
                 ELSE ledger
    /\ UNCHANGED <<proposal, created, memo, create>>

\* one call of tallyApprovals; threw: getMessages.invoke failed
TallyCall(topicId, threw, response) ==
    /\ result' = tallyApprovals(topicId, proposal.approvers, proposal.threshold,
                                threw, response)
    /\ UNCHANGED <<proposal, created, ledger, memo, create>>

TallyApprovalsReturns(topicId, response) ==
    TallyCall(topicId, FALSE, response) /\ UNCHANGED watched

TallyApprovalsFails(topicId) ==
    TallyCall(topicId, TRUE, UnparsableResponse) /\ UNCHANGED watched

\* responses: for each topic, the answers getMessages.invoke may give
TallyApprovals(responses) ==
    \E topicId \in TopicIds :
        \/ \E response \in responses[topicId] :
               TallyApprovalsReturns(topicId, response)
        \/ TallyApprovalsFails(topicId)

\* the same calls by a caller that keeps its last successful tally
WatchedTallyReturns(topicId, response) ==
    TallyCall(topicId, FALSE, response) /\ watched' = Watch(result')

WatchedTallyFails(topicId) ==
    TallyCall(topicId, TRUE, UnparsableResponse) /\ watched' = Watch(result')

WatchedTally(responses) ==
    \E topicId \in TopicIds :
        \/ \E response \in responses[topicId] :
               WatchedTallyReturns(topicId, response)
        \/ WatchedTallyFails(topicId)

-----------------------------------------------------------------------------
(* createProposal: the response of createTopic *)

\* A `topicId` field: absent (or of a type the code does not look at), a
\* string, an object whose toString() returns str, or an object whose
\* toString() throws.
AbsentId == [kind |-> "absent", str |-> <<>>]
StringId(str) == [kind |-> "string", str |-> str]
ObjectId(str) == [kind |-> "object", str |-> str]
ThrowingId == [kind |-> "throwing", str |-> <<>>]

\* Object.prototype.toString() of a plain object: "[object Object]"
ObjectObject ==
    <<"[", "o", "b", "j", "e", "c", "t", " ", "O", "b", "j", "e", "c", "t", "]">>

\* the response: wrap and type as for getMessages; an object has a `topicId`
\* field and may have a `receipt` object with a `topicId` field
CreateResponse(wrap, topicId, hasReceipt, receiptTopicId) ==
    [ topicId |-> topicId,
      wrap |-> wrap,
      type |-> "object",
      hasReceipt |-> hasReceipt,
      receiptTopicId |-> receiptTopicId ]
CreateOtherResponse(wrap) ==
    [ topicId |-> AbsentId,
      wrap |-> wrap,
      type |-> "other",
      hasReceipt |-> FALSE,
      receiptTopicId |-> AbsentId ]
CreateUnparsableResponse == CreateOtherResponse("unparsable")

OtherTopic(t) == IF t = T1 THEN T2 ELSE T1

\* the identifiers a field of the response for new topic t may hold
IdValues(t) ==
    { AbsentId, ThrowingId,
      StringId(t), StringId(OtherTopic(t)), StringId(<<>>),
      ObjectId(t), ObjectId(OtherTopic(t)), ObjectId(ObjectObject) }

\* the identifiers a field may hold in what JSON.parse returns: an object
\* field there is a plain object, whose toString() is Object.prototype's
JsonIdValues(t) ==
    { id \in IdValues(t) : id.kind \in {"object", "throwing"} => id.str = ObjectObject }

\* the identifiers a field may hold under wrap
WrappedIdValues(wrap, t) == IF wrap = "json" THEN JsonIdValues(t) ELSE IdValues(t)

\* every response create_topic_tool may give for new topic t
AllCreateResponses(t) ==
    UNION { { CreateResponse(w, top, TRUE, rec) :
                top \in WrappedIdValues(w, t), rec \in WrappedIdValues(w, t) }
            \cup { CreateResponse(w, top, FALSE, AbsentId) :
                     top \in WrappedIdValues(w, t) } : w \in {"value", "json"} }
    \cup { CreateOtherResponse("value"), CreateOtherResponse("json"),
           CreateUnparsableResponse }

\* the responses seen in normal operation: the JSON text of an object with
\* the new identifier as a string under `receipt`, the JSON text of an
\* object without identifier, an unparsable text
UsualCreateResponses(t) ==
    { CreateResponse("json", AbsentId, TRUE, StringId(t)),
      CreateResponse("json", AbsentId, FALSE, AbsentId),
      CreateUnparsableResponse }

-----------------------------------------------------------------------------
(* createProposal: extracting the topic identifier (lines 109-177) *)

\* the local topicId: null or a string
Null == [str |-> <<>>, isNull |-> TRUE]
Str(s) == [str |-> s, isNull |-> FALSE]

\* a test that lets the empty string pass as an identifier
FalsyNullOnly(v) == v.isNull

\* !topicId
Falsy(v) == v.isNull \/ v.str = <<>>

\* lines 113-129 without the JSON.parse branch: every string is rejected
ParseThrowsOnStrings(response) ==
    \/ response.wrap # "value"
    \/ response.type = "other"

\* lines 113-129 throw: an unparsable string, or neither string nor object.
\* (A string that parses to a non-object passes here and fails at line 174.)
ParseThrows(response) ==
    \/ response.wrap = "unparsable"
    \/ response.wrap = "value" /\ response.type = "other"

\* typeof x === 'object' && typeof x.toString === 'function', x truthy
IsObjectId(id) == id.kind \in {"object", "throwing"}

\* priorities 3 and 4: the try block around toString() and includes('.')
ConvertObjectId(id) ==
    IF id.kind = "throwing" THEN Null
    ELSE IF id.str # <<>> /\ IncludesChar(id.str, ".") THEN Str(id.str)
    ELSE Null

\* the chain with the top-level string tried before the string under receipt
extractTopicIdTopFirst(response) ==
    IF response.type # "object" THEN Null
    ELSE IF response.topicId.kind = "string"
         THEN Str(response.topicId.str)
    ELSE IF response.hasReceipt /\ response.receiptTopicId.kind = "string"
         THEN Str(response.receiptTopicId.str)
    ELSE IF IsObjectId(response.topicId)
         THEN ConvertObjectId(response.topicId)
    ELSE IF response.hasReceipt /\ IsObjectId(response.receiptTopicId)
         THEN ConvertObjectId(response.receiptTopicId)
    ELSE Null

\* the if / else-if chain of lines 132-172
extractTopicId(response) ==
    IF response.type # "object" THEN Null
    ELSE IF response.hasReceipt /\ response.receiptTopicId.kind = "string"
         THEN Str(response.receiptTopicId.str)
    ELSE IF response.topicId.kind = "string"
         THEN Str(response.topicId.str)
    ELSE IF IsObjectId(response.topicId)
         THEN ConvertObjectId(response.topicId)
    ELSE IF response.hasReceipt /\ IsObjectId(response.receiptTopicId)
         THEN ConvertObjectId(response.receiptTopicId)
    ELSE Null

-----------------------------------------------------------------------------
(* createProposal *)

\* the memo's share of the description (line 101)
MemoLimit == 50

\* `Approvr Proposal: ${proposalDescription.substring(0, 50)}...`
Memo(description) ==
    <<"A", "p", "p", "r", "o", "v", "r", " ", "P", "r", "o", "p", "o", "s", "a", "l",
      ":", " ">>
    \o SubSeq(description, 1, IF Len(description) < MemoLimit
                              THEN Len(description) ELSE MemoLimit)
    \o <<".", ".", ".">>

\* `Proposal: ${proposalDescription}\nApprovers: ${approvers.join(', ')}\nThreshold: ${threshold}`
initialMessage(description, approvers, threshold) ==
    PROPOSAL \o <<" ">> \o description
    \o <<"\n", "A", "p", "p", "r", "o", "v", "e", "r", "s", ":", " ">>
    \o Join(approvers, <<",", " ">>)
    \o <<"\n", "T", "h", "r", "e", "s", "h", "o", "l", "d", ":", " ">>
    \o NumberToString(threshold)

\* the topic create_topic_tool creates next
NewTopic == IF T1 \in created THEN T2 ELSE T1

\* no call is between its two awaits
Idle == [pc |-> "idle"]

\* a catch block that returns the identifier of the topic it created
createErrorKeepingTopic(response, newTopic, error) ==
    [ op |-> "createProposal",
      status |-> "error",
      topicId |-> newTopic,
      response |-> response,
      newTopic |-> newTopic,
      error |-> error ]

\* the catch block (lines 195-198); error names the statement that threw
createError(response, newTopic, error) ==
    [ op |-> "createProposal",
      status |-> "error",
      topicId |-> Null,
      response |-> response,
      newTopic |-> newTopic,
      error |-> error ]

\* the return of the try block (line 193)
createSuccess(response, newTopic, topicId) ==
    [ op |-> "createProposal",
      status |-> "success",
      topicId |-> Str(topicId),
      response |-> response,
      newTopic |-> newTopic,
      error |-> "none" ]

\* createTopic.invoke fails: no topic, the catch block returns
CreateTopicFails ==
    /\ create.pc = "idle"
    /\ result' = createError(CreateUnparsableResponse, Null, "createTopic")
    /\ UNCHANGED <<proposal, created, ledger, memo, create, watched>>

\* createTopic.invoke returns response for a new topic; the identifier is
\* extracted, and the call goes on to submitMessage or returns an error
CreateTopicReturns(response) ==
    /\ create.pc = "idle"
    /\ created # TopicIds
    /\ created' = created \cup {NewTopic}
    /\ memo' = [memo EXCEPT ![NewTopic] = Memo(proposal.description)]
    /\ IF ParseThrows(response)
       THEN /\ result' = createError(response, Str(NewTopic), "parse")
            /\ create' = create
       ELSE IF Falsy(extractTopicId(response))
       THEN /\ result' = createError(response, Str(NewTopic), "extract")
            /\ create' = create
       ELSE /\ create' = [ topicId |-> extractTopicId(response).str,
                           response |-> response,
                           pc |-> "submit",
                           newTopic |-> NewTopic ]
            /\ result' = NoResult
    /\ UNCHANGED <<proposal, ledger, watched>>

\* submitMessage.invoke appends the proposal record; createProposal returns
SubmitInitialOk ==
    /\ create.pc = "submit"
    /\ CanAppend(create.topicId)
    /\ ledger' = Appended(create.topicId,
                          MessageItem(initialMessage(proposal.description,
                                                     proposal.approvers,
                                                     proposal.threshold)))
    /\ result' = createSuccess(create.response, Str(create.newTopic), create.topicId)
    /\ create' = Idle
    /\ UNCHANGED <<proposal, created, memo, watched>>

\* submitMessage.invoke fails; the catch block returns
SubmitInitialFails ==
    /\ create.pc = "submit"
    /\ result' = createError(create.response, Str(create.newTopic), "submitMessage")
    /\ create' = Idle
    /\ UNCHANGED <<proposal, created, ledger, memo, watched>>

\* the answers createTopic.invoke may give for new topic t; every: not only
\* those seen in normal operation
CreateResponses(every, t) ==
    IF every THEN AllCreateResponses(t) ELSE UsualCreateResponses(t)

CreateProposal(every) ==
    \/ CreateTopicFails
    \/ \E response \in CreateResponses(every, NewTopic) : CreateTopicReturns(response)
    \/ SubmitInitialOk
    \/ SubmitInitialFails

-----------------------------------------------------------------------------
(* The system *)

\* a Map without entries
NoLinks == [k \in {} |-> <<>>]

NoRequest == [op |-> "none"]

\* const userData = new Map(); const serverUserData = new Map();
ServerStarts ==
    /\ userData = NoLinks
    /\ serverUserData = NoLinks
    /\ request = NoRequest

Init ==
    /\ proposal \in Proposals
    /\ created = {}
    /\ ledger = [t \in TopicIds |-> <<>>]
    /\ memo = [t \in TopicIds |-> <<>>]
    /\ create = Idle
    /\ result = NoResult
    /\ watched = Unwatched
    /\ ServerStarts

Next ==
    \/ CreateProposal(FALSE) /\ UNCHANGED server
    \/ SubmitApproval(AccountIds) /\ UNCHANGED server
    \/ TallyApprovals([t \in TopicIds |-> UsualReadResponses(t)]) /\ UNCHANGED server

Spec == Init /\ [][Next]_vars

\* descriptions a caller may pass: one line, longer than the memo's share,
\* two lines, padded with white space
RoundTripDescriptions ==
    { <<"d">>,
      [i \in 1..(MemoLimit + 1) |-> "d"],
      <<"d", "\n", "e">>,
      <<" ", "d">>,
      <<"d", " ">> }

\* the same system called with one of these descriptions
InitRoundTrip ==
    /\ proposal \in { [approvers |-> <<acctB, acctA>>, threshold |-> 1, description |-> d] :
                         d \in RoundTripDescriptions }
    /\ created = {}
    /\ ledger = [t \in TopicIds |-> <<>>]
    /\ memo = [t \in TopicIds |-> <<>>]
    /\ create = Idle
    /\ result = NoResult
    /\ watched = Unwatched
    /\ ServerStarts

SpecRoundTrip == InitRoundTrip /\ [][Next]_vars

\* what other writers may leave on a topic: items without a string message,
\* a message of neither kind, a Proposal-shaped message, approvals with
\* white space around the identifier, with a character before the prefix,
\* and in lower case
LogItems ==
    { NoMessageItem, NonObjectItem,
      MessageItem(<<"x">>),
      MessageItem(PROPOSAL \o <<" ", "e">>),
      MessageItem(APPROVE \o <<" ", "a", " ">>),
      MessageItem(<<" ">> \o APPROVE \o <<"b">>),
      MessageItem(<<"a", "p", "p", "r", "o", "v", "e", ":", "b">>) }

InitLog ==
    /\ proposal = [approvers |-> <<acctB, acctA>>, threshold |-> 1, description |-> <<"d">>]
    /\ created = {}
    /\ ledger = [t \in TopicIds |-> <<>>]
    /\ memo = [t \in TopicIds |-> <<>>]
    /\ create = Idle
    /\ result = NoResult
    /\ watched = Unwatched
    /\ ServerStarts

\* createProposal and tallyApprovals on topics that other writers append to
NextLog ==
    \/ CreateProposal(FALSE) /\ UNCHANGED server
    \/ ForeignAppend(LogItems) /\ UNCHANGED server
    \/ TallyApprovals([t \in TopicIds |-> UsualReadResponses(t)]) /\ UNCHANGED server

SpecLog == InitLog /\ [][NextLog]_vars

\* the same system with a caller that compares successive tallies
NextHistory ==
    \/ CreateProposal(FALSE) /\ UNCHANGED server
    \/ SubmitApproval(AccountIds) /\ UNCHANGED server
    \/ WatchedTally([t \in TopicIds |-> UsualReadResponses(t)]) /\ UNCHANGED server

SpecHistory == Init /\ [][NextHistory]_vars

\* createProposal against every response createTopic may give
NextCreate ==
    \/ CreateProposal(TRUE) /\ UNCHANGED server
    \/ ForeignAppend(ForeignItems) /\ UNCHANGED server

SpecCreate == Init /\ [][NextCreate]_vars

-----------------------------------------------------------------------------
(* The bot's /create and /tally handlers (api/index.js) *)

CreateCommand == <<"/", "c", "r", "e", "a", "t", "e">>
TallyCommand == <<"/", "t", "a", "l", "l", "y">>

\* s.split(sep) for a non-empty separator
RECURSIVE Split(_, _)
Split(s, sep) ==
    LET at == { i \in 1..(Len(s) - Len(sep) + 1) : SubSeq(s, i, i + Len(sep) - 1) = sep }
    IN  IF at = {} THEN <<s>>
        ELSE LET i == CHOOSE n \in at : \A m \in at : n <= m
             IN  <<SubSeq(s, 1, i - 1)>> \o Split(SubSeq(s, i + Len(sep), Len(s)), sep)

\* the number of decimal digits s starts with
RECURSIVE LeadingDigits(_)
LeadingDigits(s) ==
    IF s # <<>> /\ Includes(DigitChars, Head(s)) THEN 1 + LeadingDigits(Tail(s)) ELSE 0

\* the number that the digit string s writes
RECURSIVE DigitsValue(_)
DigitsValue(s) ==
    IF s = <<>> THEN 0
    ELSE 10 * DigitsValue(SubSeq(s, 1, Len(s) - 1))
         + (CHOOSE d \in 0..9 : DigitChars[d + 1] = s[Len(s)])

\* parseInt(s, 10): leading white space, a sign, then the longest run of
\* digits; NaN when there is no digit
ParseInt(s) ==
    LET t      == TrimStart(s)
        signed == t # <<>> /\ Head(t) \in {"+", "-"}
        u      == IF signed THEN Tail(t) ELSE t
        n      == LeadingDigits(u)
        v      == DigitsValue(SubSeq(u, 1, n))
    IN  IF n = 0 THEN [isNaN |-> TRUE, value |-> 0]
        ELSE [isNaN |-> FALSE, value |-> IF signed /\ Head(t) = "-" THEN 0 - v ELSE v]

\* parts[1].split(',').map(id => id.trim()).filter(id => id)
ParseApprovers(part) ==
    LET ids == Split(part, <<",">>)
    IN  SelectSeq([i \in 1..Len(ids) |-> Trim(ids[i])], LAMBDA id : id # <<>>)

\* a threshold test that lets 0 pass
InvalidThresholdBelowZero(threshold, approvers) ==
    threshold.isNaN \/ threshold.value < 0 \/ threshold.value > Len(approvers)

\* isNaN(threshold) || threshold <= 0 || threshold > approvers.length
InvalidThreshold(threshold, approvers) ==
    threshold.isNaN \/ threshold.value <= 0 \/ threshold.value > Len(approvers)

\* the handler of command up to `await ctx.sendChatAction('typing')`: its
\* locals, and status: the reply it returned with ("usage", "format",
\* "threshold") or "typing" when it goes on to the core call
BotHandler(command, text) ==
    LET args      == Trim(Substring(text, Len(command)))
        parts     == Split(args, <<" ", "|", " ">>)
        approvers == IF Len(parts) = 3 THEN ParseApprovers(parts[2]) ELSE <<>>
        threshold == IF Len(parts) = 3 THEN ParseInt(Trim(parts[3])) ELSE ParseInt(<<>>)
    IN  [ approvers |-> approvers,
          threshold |-> threshold,
          op |-> "bot",
          status |-> IF args = <<>> THEN "usage"
                     ELSE IF Len(parts) # 3 THEN "format"
                     ELSE IF InvalidThreshold(threshold, approvers) THEN "threshold"
                     ELSE "typing",
          first |-> Trim(parts[1]),
          command |-> command,
          text |-> text ]

\* a handler awaits sendChatAction and will call the core next
BotPending == result.op = "bot" /\ result.status = "typing"

\* a command arrives (handlers run one after the other); a handler that
\* passes its checks holds the core's arguments in its locals
BotCommand(command, texts) ==
    \E text \in texts :
        /\ create.pc = "idle"
        /\ ~ BotPending
        /\ result' = BotHandler(command, text)
        /\ proposal' = IF result'.status = "typing"
                       THEN [ approvers |-> result'.approvers,
                              threshold |-> result'.threshold.value,
                              description |-> result'.first ]
                       ELSE proposal
        /\ UNCHANGED <<created, ledger, memo, create, watched>>

\* sendChatAction rejects: the handler ends without a core call
BotTypingFails ==
    /\ BotPending
    /\ result' = [result EXCEPT !.status = "failed"]
    /\ UNCHANGED <<proposal, created, ledger, memo, create, watched>>

\* `await createProposal(description, approvers, threshold)`, to its first await
BotCreateCall ==
    /\ BotPending
    /\ result.command = CreateCommand
    /\ \/ CreateTopicFails
       \/ \E response \in CreateResponses(FALSE, NewTopic) : CreateTopicReturns(response)

\* `await tallyApprovals(topicId, approvers, threshold)`
BotTallyCall ==
    /\ BotPending
    /\ result.command = TallyCommand
    /\ result.first \in TopicIds
    /\ \/ \E response \in UsualReadResponses(result.first) :
              TallyApprovalsReturns(result.first, response)
       \/ TallyApprovalsFails(result.first)

\* the texts after the command: nothing, two parts, four parts, and three
\* parts with these approver lists and thresholds
BotTexts(first) ==
    { <<>>, <<" ">> \o first \o <<" ", "|", " ", "a", ",", "b">>,
      <<" ">> \o first \o <<" ", "|", " ", "a", " ", "|", " ", "1", " ", "|", " ", "1">> }
    \cup { <<" ">> \o first \o <<" ", "|", " ">> \o a \o <<" ", "|", " ">> \o t :
             a \in { <<"b", ",", "a">>, <<" ", "a", ",", " ", ",", "b">>, <<",">> },
             t \in { <<"2">>, <<"0">>, <<"3">>, <<"-", "1">>, <<"x">>, <<"2", "x">>, <<>> } }

InitBot ==
    /\ proposal = [approvers |-> <<>>, threshold |-> 0, description |-> <<>>]
    /\ created = {}
    /\ ledger = [t \in TopicIds |-> <<>>]
    /\ memo = [t \in TopicIds |-> <<>>]
    /\ create = Idle
    /\ result = NoResult
    /\ watched = Unwatched
    /\ ServerStarts

\* the core called through the bot only, with approvals arriving meanwhile
NextBot ==
    \/ BotCommand(CreateCommand, { CreateCommand \o rest : rest \in BotTexts(<<"d">>) }) /\ UNCHANGED server
    \/ BotCommand(TallyCommand, { TallyCommand \o rest : rest \in BotTexts(T1) }) /\ UNCHANGED server
    \/ BotTypingFails /\ UNCHANGED server
    \/ BotCreateCall /\ UNCHANGED server
    \/ BotTallyCall /\ UNCHANGED server
    \/ SubmitInitialOk /\ UNCHANGED server
    \/ SubmitInitialFails /\ UNCHANGED server
    \/ ~ BotPending /\ SubmitApproval({acctA}) /\ UNCHANGED server

SpecBot == InitBot /\ [][NextBot]_vars

-----------------------------------------------------------------------------
(* The bot's /linkaccount handler and the /api/approve endpoint (api/index.js) *)

LinkCommand == <<"/", "l", "i", "n", "k", "a", "c", "c", "o", "u", "n", "t">>

\* the prefix of a Hedera account identifier
AccountPrefix == <<"0", ".", "0", ".">>

\* Telegram user ids (ctx.from.id, a number)
UserIds == {1, 2}

\* ctx.message.text.substring('/linkaccount'.length).trim()
hederaAccountId(text) == Trim(Substring(text, Len(LinkCommand)))

\* !hederaAccountId || !hederaAccountId.startsWith("0.0.")
RejectsAccount(id) == id = <<>> \/ ~ StartsWith(id, AccountPrefix)

\* a Map whose set() keeps the value a key has already
MapSetOnce(map, key, value) ==
    [k \in DOMAIN map \cup {key} |-> IF k \in DOMAIN map THEN map[k] ELSE value]

\* map.set(key, value)
MapSet(map, key, value) ==
    [k \in DOMAIN map \cup {key} |-> IF k = key THEN value ELSE map[k]]

\* the /linkaccount handler: a rejected identifier is answered with an error,
\* an accepted one is stored in both maps before the reply is awaited
BotLinkAccount(userIds, texts) ==
    \E userId \in userIds, text \in texts :
        /\ request' = [op |-> "linkaccount", text |-> text, userId |-> userId]
        /\ IF RejectsAccount(hederaAccountId(text))
           THEN UNCHANGED <<userData, serverUserData>>
           ELSE /\ userData' = MapSet(userData, userId, hederaAccountId(text))
                /\ serverUserData' = MapSet(serverUserData, NumberToString(userId),
                                            hederaAccountId(text))
        /\ result' = NoResult
        /\ UNCHANGED <<proposal, created, ledger, memo, create, watched>>

\* a value of the request body: absent, a number or a string
JsAbsent == [kind |-> "absent", str |-> <<>>, num |-> 0]
JsNumber(n) == [kind |-> "number", str |-> <<>>, num |-> n]
JsString(s) == [kind |-> "string", str |-> s, num |-> 0]

\* !v
JsFalsy(v) ==
    \/ v.kind = "absent"
    \/ v.kind = "number" /\ v.num = 0
    \/ v.kind = "string" /\ v.str = <<>>

\* v.toString() of a number or a string
JsToString(v) == IF v.kind = "number" THEN NumberToString(v.num) ELSE v.str

\* the account named in the request itself
userAccountOfRequest(body) == body.userAccount

\* linkData.verifiedHederaAccountId of serverUserData.get(telegramUserId.toString())
verifiedHederaAccountId(body) == serverUserData[JsToString(body.telegramUserId)]

\* the answer of /api/approve that ends without a core call
apiError(code) == [op |-> "apiApprove", status |-> "error", code |-> code]

\* the /api/approve endpoint
ApiApprove(bodies) ==
    \E body \in bodies :
        /\ request' = body
        /\ UNCHANGED <<userData, serverUserData>>
        /\ IF JsFalsy(body.telegramUserId) \/ JsFalsy(body.topicId)
           THEN /\ result' = apiError(400)
                /\ UNCHANGED <<proposal, created, ledger, memo, create, watched>>
           ELSE IF JsToString(body.telegramUserId) \notin DOMAIN serverUserData
           THEN /\ result' = apiError(401)
                /\ UNCHANGED <<proposal, created, ledger, memo, create, watched>>
           ELSE \/ SubmitApprovalOk(JsToString(body.topicId), verifiedHederaAccountId(body))
                \/ SubmitApprovalFails(JsToString(body.topicId), verifiedHederaAccountId(body))

\* the /linkaccount messages: two accounts, one with white space around it,
\* no account, an account without the prefix
LinkTexts ==
    { LinkCommand \o <<" ", "0", ".", "0", ".", "7">>,
      LinkCommand \o <<" ", " ", "0", ".", "0", ".", "8", " ">>,
      LinkCommand,
      LinkCommand \o <<" ", "a">> }

\* the request bodies: the user id as a number, as a string, or missing; the
\* topic or none; and an account of the sender's choice
ApproveBodies ==
    { [ op |-> "approve",
        topicId |-> t,
        userAccount |-> <<"0", ".", "0", ".", "9">>,
        telegramUserId |-> u ]:
        u \in { JsAbsent, JsNumber(1), JsNumber(2), JsString(<<"1">>) },
        t \in { JsAbsent, JsString(T1) } }

InitLink ==
    /\ proposal = [approvers |-> <<acctA, acctB>>, threshold |-> 2, description |-> <<"d">>]
    /\ created = {}
    /\ ledger = [t \in TopicIds |-> <<>>]
    /\ memo = [t \in TopicIds |-> <<>>]
    /\ create = Idle
    /\ result = NoResult
    /\ watched = Unwatched
    /\ ServerStarts

\* users link accounts and approve through the endpoint
NextLink ==
    \/ CreateProposal(FALSE) /\ UNCHANGED server
    \/ BotLinkAccount(UserIds, LinkTexts)
    \/ ApiApprove(ApproveBodies)

SpecLink == InitLink /\ [][NextLink]_vars

-----------------------------------------------------------------------------
(* Properties *)

Range(seq) == { seq[i] : i \in 1..Len(seq) }

TallyReturned == result.op = "tallyApprovals"
TallySucceeded == TallyReturned /\ result.status = "success"

\* the message sequence of the response the last tally was given
LogRead == result.response.items

\* item is an `APPROVE:` message of identifier x
Approves(item, x) ==
    /\ item.kind = "message"
    /\ StartsWith(item.message, APPROVE)
    /\ Trim(Substring(item.message, Len(APPROVE))) = x

\* the listed identifiers with at least one `APPROVE:` message in log
ListedApproving(log, approvers) ==
    { x \in Range(approvers) : \E i \in 1..Len(log) : Approves(log[i], x) }

\* C1: a listed identifier with N >= 1 APPROVE: messages in the log counts
\* exactly once, wherever the messages sit: a successful tally returns the
\* number of distinct listed identifiers that have such a message.
C1_DedupOnce ==
    TallySucceeded =>
        result.approvals = Cardinality(ListedApproving(LogRead, result.approvers))

\* C1 witness: a successful tally of a log where a listed identifier approves
\* twice, with a message that is not its approval in between.
C1_Witness ==
    /\ TallySucceeded
    /\ \E x \in Range(result.approvers) :
       \E i \in 1..Len(LogRead), k \in 1..Len(LogRead) :
           /\ i + 1 < k
           /\ Approves(LogRead[i], x)
           /\ ~ Approves(LogRead[i + 1], x)
           /\ Approves(LogRead[k], x)
    /\ result.approvals >= 1

\* C2: a successful tally returns isApproved = (approvalCount >= threshold).
C2_ThresholdCorrect ==
    TallySucceeded =>
        (result.isApproved <=> result.approvals >= result.threshold)

\* C2 witness: a successful tally with threshold = |approvers| and exactly
\* threshold approvals, approved.
C2_Witness ==
    /\ TallySucceeded
    /\ result.threshold = Len(result.approvers)
    /\ result.threshold >= 1
    /\ result.approvals = result.threshold
    /\ result.isApproved

\* item is an `APPROVE:` message of an identifier that is not in approvers
UnlistedApproval(item, approvers) ==
    /\ item.kind = "message"
    /\ StartsWith(item.message, APPROVE)
    /\ \A i \in 1..Len(approvers) :
           approvers[i] # Trim(Substring(item.message, Len(APPROVE)))

\* log without the approvals of unlisted identifiers
WithoutUnlisted(log, approvers) ==
    SelectSeq(log, LAMBDA item : ~ UnlistedApproval(item, approvers))

\* C3: approvals of unlisted identifiers change nothing: a successful tally
\* returns the approvalCount and isApproved that the tally of the same log
\* without those messages returns, and that tally succeeds too.
C3_UnlistedExcluded ==
    TallySucceeded =>
        LET without == tallyApprovals(
                result.topicId, result.approvers, result.threshold, FALSE,
                [result.response EXCEPT
                    !.items = WithoutUnlisted(LogRead, result.approvers)])
        IN  /\ without.status = "success"
            /\ without.approvals = result.approvals
            /\ without.isApproved = result.isApproved

\* C3 witness: a successful tally of a log that holds an approval of an
\* unlisted identifier and an approval of a listed one.
C3_Witness ==
    /\ TallySucceeded
    /\ \E i \in 1..Len(LogRead) : UnlistedApproval(LogRead[i], result.approvers)
    /\ result.approvals >= 1

\* C4 (as claimed): with the log, approvers and threshold fixed, a successful
\* tally never returns fewer approvals than an earlier successful tally.
C4_TallyNeverDecreases ==
    [][ (watched.seen /\ watched'.seen) =>
            watched'.approvals >= watched.approvals ]_vars

\* C5 (as claimed): once a successful tally returned isApproved = true, every
\* later successful tally of that log returns isApproved = true.
C5_ApprovedStaysApproved ==
    [][ (watched.seen /\ watched.isApproved /\ watched'.seen) =>
            watched'.isApproved ]_vars

\* the orders of n messages
Orders(n) ==
    { p \in [1..n -> 1..n] : \A i \in 1..n, j \in 1..n : p[i] = p[j] => i = j }

\* C6: every successful submitApproval call appends its own message, and
\* approvals appended by concurrent submitApproval calls count the same
\* in every order the ledger gave them: a successful tally returns the
\* approvalCount and isApproved that the tally of every reordering of the log
\* returns, and each distinct listed approver in it is counted once.
C6_OrderIndependent ==
    /\ [][ (result'.op = "submitApproval" /\ result'.status = "success") =>
               ledger' = Appended(result'.topicId,
                                  MessageItem(approvalMessage(result'.accountId))) ]_vars
    /\ [](TallySucceeded =>
            /\ \A p \in Orders(Len(LogRead)) :
                   LET reordered == tallyApprovals(
                           result.topicId, result.approvers, result.threshold, FALSE,
                           [result.response EXCEPT
                               !.items = [i \in 1..Len(LogRead) |-> LogRead[p[i]]]])
                   IN  /\ reordered.approvals = result.approvals
                       /\ reordered.isApproved = result.isApproved
            /\ Cardinality(ListedApproving(LogRead, result.approvers))
                   = result.approvals)

\* C6 witness: two listed approvers submitted approvals to the same topic,
\* the ledger put the second-listed one first, and a tally counted both.
C6_Witness ==
    /\ TallySucceeded
    /\ Len(result.approvers) >= 2
    /\ result.approvers[1] # result.approvers[2]
    /\ \E i \in 1..Len(LogRead), j \in 1..Len(LogRead) :
           /\ i < j
           /\ LogRead[i] = MessageItem(approvalMessage(result.approvers[2]))
           /\ LogRead[j] = MessageItem(approvalMessage(result.approvers[1]))
    /\ LogRead = ledger[result.topicId]
    /\ result.approvals = 2

\* C7: every operation returns status success or error, and a failed
\* collaborator call gives status error with the safe defaults.
C7_TotalWithDefaults ==
    /\ result.status \in {"success", "error"}
    /\ (result.op = "createProposal" /\ result.error \in {"createTopic", "submitMessage"})
           => (result.status = "error" /\ result.topicId = Null)
    /\ (result.op = "submitApproval" /\ result.threw) => result.status = "error"
    /\ (TallyReturned /\ result.threw)
           => (result.status = "error" /\ result.approvals = 0 /\ ~ result.isApproved)

\* C7 witness: getMessages failed for a topic whose approvals meet the
\* threshold, and the tally returned the defaults.
C7_Witness ==
    /\ TallyReturned
    /\ result.threw
    /\ result.status = "error"
    /\ result.threshold >= 1
    /\ Cardinality(ListedApproving(ledger[result.topicId], result.approvers))
           >= result.threshold

\* the response is neither an array nor an object with a `messages` array
\* (nor the JSON text of one)
CannotBeNormalized(response) ==
    \/ response.wrap = "unparsable"
    \/ response.type \notin {"array", "object"}
    \/ response.type = "object" /\ ~ response.hasMessages

\* C8 (as claimed): a response that cannot be normalized to a message
\* sequence gives status error with approval count 0 and isApproved false.
C8_UnreadableIsError ==
    (TallyReturned /\ ~ result.threw /\ CannotBeNormalized(result.response))
        => (result.status = "error" /\ result.approvals = 0 /\ ~ result.isApproved)

CreateReturned == result.op = "createProposal"

\* C9: when the append of the proposal record fails after the topic was
\* created, createProposal returns status error and a null identifier, and
\* the topic exists on the ledger.
C9_AppendFailureIsFullFailure ==
    (CreateReturned /\ result.error = "submitMessage")
        => /\ result.status = "error"
           /\ result.topicId = Null
           /\ ~ result.newTopic.isNull
           /\ result.newTopic.str \in created

\* C9 witness: the response named the new topic, the append failed, and the
\* topic is on the ledger without a proposal record.
C9_Witness ==
    /\ CreateReturned
    /\ result.error = "submitMessage"
    /\ extractTopicId(result.response) = result.newTopic
    /\ result.newTopic.str \in created
    /\ ledger[result.newTopic.str] = <<>>

\* the stringification of an object identifier contains the separator
HasSeparator(id) ==
    id.kind = "object" /\ \E i \in 1..Len(id.str) : id.str[i] = "."

\* the parsed response shows an identifier in one of the four places
MatchesRecognizedShape(response) ==
    /\ response.wrap # "unparsable"
    /\ response.type = "object"
    /\ \/ response.hasReceipt /\ response.receiptTopicId.kind = "string"
                              /\ response.receiptTopicId.str # <<>>
       \/ response.topicId.kind = "string" /\ response.topicId.str # <<>>
       \/ HasSeparator(response.topicId)
       \/ response.hasReceipt /\ HasSeparator(response.receiptTopicId)

\* C10 (as claimed): createProposal fails to extract an identifier only when
\* the response matches none of the four recognized shapes.
C10_ExtractsRecognizedShapes ==
    (CreateReturned /\ result.error \in {"parse", "extract"})
        => ~ MatchesRecognizedShape(result.response)

\* the responses that carry identifier t in exactly one of the recognized
\* shapes: the JSON text of an object with the string, the object with the
\* string, the object with an identifier object, each at top level or under
\* `receipt`
ShapesOf(t) ==
    { CreateResponse("json", StringId(t), FALSE, AbsentId),
      CreateResponse("json", AbsentId, TRUE, StringId(t)),
      CreateResponse("value", StringId(t), FALSE, AbsentId),
      CreateResponse("value", AbsentId, TRUE, StringId(t)),
      CreateResponse("value", ObjectId(t), FALSE, AbsentId),
      CreateResponse("value", AbsentId, TRUE, ObjectId(t)) }

\* C11: responses that carry the same identifier in each of the recognized
\* shapes give the identical identifier: createProposal goes on to the append
\* with that identifier, never fails to extract it, and returns it on success.
C11_ShapesAgree ==
    \A t \in TopicIds :
        /\ (create.pc = "submit" /\ create.response \in ShapesOf(t))
               => create.topicId = t
        /\ (CreateReturned /\ result.response \in ShapesOf(t))
               => /\ result.error \notin {"parse", "extract"}
                  /\ result.status = "success" => result.topicId = Str(t)

\* C11 witness: createProposal returned the identifier that an identifier
\* object at top level stringifies to.
C11_Witness ==
    /\ CreateReturned
    /\ result.status = "success"
    /\ result.response = CreateResponse("value", ObjectId(result.topicId.str),
                                        FALSE, AbsentId)
    /\ result.response \in ShapesOf(result.newTopic.str)

\* id is a usable identifier: a non-empty string, or an object whose
\* stringification contains the separator
UsableId(id) == (id.kind = "string" /\ id.str # <<>>) \/ HasSeparator(id)

\* the response carries usable identifiers of different values at top level
\* and under `receipt`
TwoPositions(response) ==
    /\ response.wrap # "unparsable"
    /\ response.type = "object"
    /\ response.hasReceipt
    /\ UsableId(response.topicId)
    /\ UsableId(response.receiptTopicId)
    /\ response.topicId.str # response.receiptTopicId.str

\* the identifier at the earliest position: string under `receipt`, string
\* at top level, object at top level, object under `receipt`
EarliestPosition(response) ==
    IF response.receiptTopicId.kind = "string" THEN response.receiptTopicId.str
    ELSE IF response.topicId.kind = "string" THEN response.topicId.str
    ELSE IF response.topicId.kind = "object" THEN response.topicId.str
    ELSE response.receiptTopicId.str

\* C12: when the response carries different identifiers at two positions,
\* createProposal takes the one at the earliest position, appends the
\* proposal record to that log, and returns that identifier.
C12_EarliestPositionWins ==
    /\ [](  /\ (create.pc = "submit" /\ TwoPositions(create.response))
                   => create.topicId = EarliestPosition(create.response)
            /\ (CreateReturned /\ TwoPositions(result.response))
                   => result.error \notin {"parse", "extract"} )
    /\ [][ (result'.op = "createProposal" /\ result'.status = "success"
               /\ TwoPositions(result'.response))
           => /\ result'.topicId = Str(EarliestPosition(result'.response))
              /\ ledger' = Appended(EarliestPosition(result'.response),
                                    MessageItem(initialMessage(proposal.description,
                                                               proposal.approvers,
                                                               proposal.threshold))) ]_vars

\* C12 witness: the response held one identifier as a string under `receipt`
\* and another as a string at top level, and createProposal returned the one
\* under `receipt`.
C12_Witness ==
    /\ CreateReturned
    /\ result.status = "success"
    /\ TwoPositions(result.response)
    /\ result.response.topicId.kind = "string"
    /\ result.response.receiptTopicId.kind = "string"
    /\ result.topicId = Str(result.response.receiptTopicId.str)

\* the ways getMessages may deliver the message list items: the array, an
\* object with the array under `messages`, the JSON text of either
Deliveries(items) ==
    { ArrayResponse("value", items), ArrayResponse("json", items),
      ObjectResponse("value", items), ObjectResponse("json", items) }

\* C13: for the same message list, tallyApprovals returns the same
\* approvalCount and isApproved however the list is delivered (array, object
\* with `messages`, JSON text of either); the JSON text of an object whose
\* messages hold one message APPROVE:a yields exactly that one message.
C13_SameUnderEveryDelivery ==
    /\ ExtractMessages(ObjectResponse("json", <<MessageItem(approvalMessage(acctA))>>)).items
           = <<MessageItem(approvalMessage(acctA))>>
    /\ (TallySucceeded /\ result.response \in Deliveries(result.response.items))
           => \A response \in Deliveries(result.response.items) :
                  LET other == tallyApprovals(result.topicId, result.approvers,
                                              result.threshold, FALSE, response)
                  IN  /\ other.status = "success"
                      /\ other.approvals = result.approvals
                      /\ other.isApproved = result.isApproved

\* C13 witness: the JSON text of an object whose messages hold the one
\* message APPROVE:a was tallied, and one approval was counted.
C13_Witness ==
    /\ TallySucceeded
    /\ result.response = ObjectResponse("json", <<MessageItem(approvalMessage(acctA))>>)
    /\ result.approvals = 1

\* the proposal record createProposal writes for the caller's arguments
ProposalRecord ==
    MessageItem(initialMessage(proposal.description, proposal.approvers,
                               proposal.threshold))

\* C14 (as claimed): the description that the approved report shows, decoded
\* from the proposal record that createProposal wrote, is the description
\* createProposal was given, unchanged.
C14_DescriptionRoundTrip ==
    (TallySucceeded /\ result.message.kind = "approved"
        /\ LogRead # <<>> /\ LogRead[1] = ProposalRecord)
        => result.message.proposalDescription = proposal.description

\* the report lists identifier x with the annotation that says whether x is
\* in the counted approval set
ListsApprover(report, log, approvers, x) ==
    \E i \in 1..Len(report.approvers) :
        /\ report.approvers[i].approver = x
        /\ report.approvers[i].approved = (x \in ListedApproving(log, approvers))

\* C15 (as claimed): whenever tallyApprovals returns isApproved = true, for
\* any log content, its report states approvalCount over the threshold
\* argument and lists every identifier of the approvers argument, annotated
\* (approved) exactly when the identifier is in the counted approval set
\* (checked for the thresholds a caller may pass, 1 and more).
C15_ApprovedReportComplete ==
    (TallySucceeded /\ result.isApproved /\ result.threshold >= 1)
        => /\ result.message.kind = "approved"
           /\ result.message.approvalCount = NumberToString(result.approvals)
           /\ result.message.threshold = NumberToString(result.threshold)
           /\ \A x \in Range(result.approvers) :
                  ListsApprover(result.message, LogRead, result.approvers, x)

\* C16 (as claimed): tallyApprovals has no side effect on its inputs: after
\* any call, in either report branch, the caller's approvers sequence has the
\* same elements in the same order as before the call.
C16_ApproversUntouched ==
    TallyReturned => result.approversAfter = result.approvers

\* C17: tallyApprovals never writes to the ledger: a step in which a tally
\* returns leaves the message sequence of every log, the set of logs and
\* their memos as they were, whatever other calls are in flight.
C17_TallyWritesNothing ==
    [][ result'.op = "tallyApprovals"
            => /\ ledger' = ledger
               /\ created' = created
               /\ memo' = memo
               /\ create' = create ]_vars

\* C17 witness: a tally of a log that holds messages returned while a
\* createProposal call was between its two awaits.
C17_Witness ==
    /\ TallySucceeded
    /\ LogRead # <<>>
    /\ ledger[result.topicId] = LogRead
    /\ create.pc = "submit"

\* arr with every repetition of an earlier element removed
RECURSIVE WithoutRepetitions(_)
WithoutRepetitions(arr) ==
    IF arr = <<>> THEN <<>>
    ELSE LET init == WithoutRepetitions(SubSeq(arr, 1, Len(arr) - 1))
         IN  IF Includes(init, arr[Len(arr)]) THEN init
             ELSE Append(init, arr[Len(arr)])

\* C18: repeated identifiers in the approvers argument do not change the
\* quorum logic: for the log and threshold of any successful tally,
\* tallyApprovals returns the same approvalCount and isApproved for the
\* approvers list with its repetitions removed.
C18_DuplicatesIgnored ==
    TallySucceeded
        => LET other == tallyApprovals(result.topicId,
                                       WithoutRepetitions(result.approvers),
                                       result.threshold, FALSE, result.response)
           IN  /\ other.status = "success"
               /\ other.approvals = result.approvals
               /\ other.isApproved = result.isApproved

\* C18 witness: a tally for an approvers list that names one identifier
\* twice counted the approval of that identifier once.
C18_Witness ==
    /\ TallySucceeded
    /\ result.approvers = <<acctA, acctA>>
    /\ WithoutRepetitions(result.approvers) = <<acctA>>
    /\ Cardinality({ i \in 1..Len(LogRead) : Approves(LogRead[i], acctA) }) = 2
    /\ result.approvals = 1

\* C20 (as claimed): after a successful createProposal the proposal record
\* is the first message of the created log, also when other parties append
\* to the ledger meanwhile, and the log holds the record exactly once.
C20_RecordIsFirst ==
    (CreateReturned /\ result.status = "success" /\ result.topicId = result.newTopic)
        => LET log == ledger[result.topicId.str]
           IN  /\ log # <<>>
               /\ log[1] = ProposalRecord
               /\ Cardinality({ i \in 1..Len(log) : log[i] = ProposalRecord }) = 1

\* a step in which a call of createProposal or tallyApprovals begins
CoreCallBegins ==
    /\ create.pc = "idle"
    /\ \/ result'.op \in {"createProposal", "tallyApprovals"}
       \/ create'.pc = "submit"

\* a step touches nothing of the core: no topic, no message, no call
CoreUntouched ==
    /\ created' = created
    /\ ledger' = ledger
    /\ memo' = memo
    /\ create' = create

\* threshold is an integer between 1 and the number of approvers
WithinQuorum(threshold, approvers) ==
    ~ threshold.isNaN /\ threshold.value \in 1..Len(approvers)

\* C19: the /create and /tally handlers call createProposal / tallyApprovals
\* only when the parsed threshold is an integer with 1 <= threshold <=
\* |approvers|, approvers being the entries left after trimming and dropping
\* the empty ones, and pass these values on; with any other threshold they
\* reply with the threshold error and make no core call.
C19_CallerEnforcesThreshold ==
    /\ [][ CoreCallBegins
             => /\ result.op = "bot"
                /\ WithinQuorum(result.threshold, result.approvers)
                /\ \A i \in 1..Len(result.approvers) :
                       /\ result.approvers[i] # <<>>
                       /\ Trim(result.approvers[i]) = result.approvers[i]
                /\ proposal.threshold = result.threshold.value
                /\ proposal.approvers = result.approvers ]_vars
    /\ [][ (result'.op = "bot" /\ Len(Split(Trim(Substring(result'.text, Len(result'.command))),
                                            <<" ", "|", " ">>)) = 3
              /\ ~ WithinQuorum(result'.threshold, result'.approvers))
             => /\ result'.status = "threshold"
                /\ CoreUntouched
                /\ proposal' = proposal ]_vars
    /\ [][ (result.op = "bot" /\ result.status # "typing") => ~ CoreCallBegins ]_vars

\* C19 witness: /create with an approver list that has an empty entry and
\* padded identifiers, and a threshold equal to the number of approvers left,
\* went on to createProposal, which wrote the record for these arguments.
C19_Witness ==
    /\ CreateReturned
    /\ result.status = "success"
    /\ proposal.approvers = <<acctA, acctB>>
    /\ proposal.threshold = 2
    /\ ledger[result.topicId.str] = <<ProposalRecord>>

\* C21: for an empty message history, however it is delivered, and any
\* threshold >= 1, tallyApprovals returns status success with approvalCount 0
\* and isApproved false.
C21_EmptyHistory ==
    (TallyReturned /\ ~ result.threw /\ result.response \in Deliveries(<<>>)
        /\ result.threshold >= 1)
        => /\ result.status = "success"
           /\ result.approvals = 0
           /\ result.isApproved = FALSE

\* C21 witness: the log of an existing topic was read as an empty array
\* under a threshold of 2.
C21_Witness ==
    /\ TallyReturned
    /\ result.topicId \in created
    /\ ledger[result.topicId] = <<>>
    /\ result.response = ArrayResponse("value", <<>>)
    /\ result.threshold = 2
    /\ result.status = "success"

\* C22: with threshold 0 tallyApprovals completes with status success and
\* isApproved true for every log, the empty log and a log without Proposal
\* record included, and renders the approved report.
C22_ZeroThreshold ==
    (TallyReturned /\ ~ result.threw /\ result.threshold = 0
        /\ result.response \in Deliveries(LogRead))
        => /\ result.status = "success"
           /\ result.isApproved = TRUE
           /\ result.approvals = Cardinality(ListedApproving(LogRead, result.approvers))
           /\ result.message.kind = "approved"
           /\ result.message.approvalCount = NumberToString(result.approvals)

\* C22 witness: under threshold 0 the empty log of an existing topic was
\* tallied as approved, with the placeholder for the description.
C22_Witness ==
    /\ TallySucceeded
    /\ result.threshold = 0
    /\ result.topicId \in created
    /\ result.response = ArrayResponse("value", <<>>)
    /\ result.isApproved
    /\ result.message.proposalDescription = DetailsNotFound

\* C27: the not-yet-approved report is rendered exactly when isApproved is
\* false, and the number of further approvals it states is threshold -
\* approvalCount, which is at least 1.
C27_NeededAtLeastOne ==
    TallySucceeded
        => /\ (result.message.kind = "tally") = (result.isApproved = FALSE)
           /\ result.message.kind = "tally"
                  => /\ result.message.needed = result.threshold - result.approvals
                     /\ result.message.needed >= 1
                     /\ result.message.approvalCount = NumberToString(result.approvals)
                     /\ result.message.threshold = NumberToString(result.threshold)

\* C27 witness: one approval short of a threshold of 2, the report asks for
\* exactly one more.
C27_Witness ==
    /\ TallySucceeded
    /\ result.threshold = 2
    /\ result.approvals = 1
    /\ result.message.kind = "tally"
    /\ result.message.needed = 1

\* the step is the return of a call of op
Returns(op) == result'.op = op

\* C28: the core does not retry. A submitApproval whose append fails returns
\* an error and leaves the log alone, one whose append succeeds adds one
\* message; a tally whose read fails returns an error; a createProposal
\* whose createTopic or append fails returns an error, creates no second
\* topic and appends nothing; no step creates more than one topic or appends
\* more than one message.
C28_NoRetry ==
    [][ /\ Cardinality(created' \ created) <= 1
        /\ Len(ledger'[T1]) + Len(ledger'[T2]) <= LedgerSize + 1
        /\ Returns("submitApproval")
               => IF result'.threw
                  THEN result'.status = "error" /\ ledger' = ledger
                  ELSE Len(ledger'[T1]) + Len(ledger'[T2]) = LedgerSize + 1
        /\ (Returns("tallyApprovals") /\ result'.threw)
               => result'.status = "error" /\ ledger' = ledger
        /\ (Returns("createProposal") /\ result'.error = "createTopic")
               => result'.status = "error" /\ created' = created /\ ledger' = ledger
        /\ (Returns("createProposal") /\ result'.error = "submitMessage")
               => result'.status = "error" /\ created' = created /\ ledger' = ledger
        /\ (Returns("createProposal") /\ result'.status = "success")
               => /\ created' = created
                  /\ Len(ledger'[T1]) + Len(ledger'[T2]) = LedgerSize + 1 ]_vars

\* C28 witness: the append of createProposal failed after the topic was
\* created; the call returned an error, and the topic holds no message.
C28_Witness ==
    /\ CreateReturned
    /\ result.error = "submitMessage"
    /\ result.status = "error"
    /\ result.newTopic.str \in created
    /\ ledger[result.newTopic.str] = <<>>
    /\ create.pc = "idle"

\* C30: submitApproval neither validates nor deduplicates: every call whose
\* append succeeds returns success and adds exactly the one message
\* APPROVE:<accountId> to the log, whoever the account is and whatever the
\* log holds already.
C30_NoWriteTimeValidation ==
    [][ (Returns("submitApproval") /\ ~ result'.threw)
            => /\ result'.status = "success"
               /\ ledger' = [ledger EXCEPT ![result'.topicId] =
                                 Append(@, MessageItem(APPROVE \o result'.accountId))] ]_vars

\* C30 witness: an account that is no listed approver and had approved
\* already submitted once more, and the log holds both messages.
C30_Witness ==
    /\ result.op = "submitApproval"
    /\ result.status = "success"
    /\ result.accountId = acctC
    /\ ~ Includes(proposal.approvers, acctC)
    /\ Cardinality({ i \in 1..Len(ledger[result.topicId]) :
                       ledger[result.topicId][i] = MessageItem(approvalMessage(acctC)) }) = 2

\* C29: when createTopic fails or no identifier can be extracted from its
\* response, createProposal returns status error with a null identifier and
\* appends nothing; the proposal record is appended only by a call that
\* obtained an identifier, and only to the log of that identifier.
C29_NoAppendWithoutIdentifier ==
    /\ [][ (Returns("createProposal") /\ result'.error \in {"createTopic", "parse", "extract"})
               => /\ result'.status = "error"
                  /\ result'.topicId = Null
                  /\ ledger' = ledger
                  /\ create'.pc = "idle" ]_vars
    /\ [][ (Returns("createProposal") /\ ledger' # ledger)
               => /\ create.pc = "submit"
                  /\ result'.topicId = Str(create.topicId)
                  /\ ledger' = [ledger EXCEPT ![create.topicId] = Append(@, ProposalRecord)] ]_vars
    /\ [](create.pc = "submit"
               => /\ create.topicId # <<>>
                  /\ extractTopicId(create.response) = Str(create.topicId))

\* C29 witness: the response held an empty string where the identifier
\* belongs; createProposal returned an error with a null identifier, and the
\* topic it had created holds no message.
C29_Witness ==
    /\ CreateReturned
    /\ result.error = "extract"
    /\ result.response.hasReceipt
    /\ result.response.receiptTopicId = StringId(<<>>)
    /\ result.topicId = Null
    /\ ledger[result.newTopic.str] = <<>>

\* the tally of the call that just returned, had the log been the given one
TallyOf(log) ==
    tallyApprovals(result.topicId, result.approvers, result.threshold, FALSE,
                   [result.response EXCEPT !.items = log])

\* the call that just returned was given a message list
TallyRead ==
    TallyReturned /\ ~ result.threw /\ result.response \in Deliveries(LogRead)

\* log without the entries that are no object or have no string message
WithoutUnreadable(log) == SelectSeq(log, LAMBDA item : item.kind = "message")

\* C23: an entry that is no object or lacks a string message is skipped and
\* is no error: the tally returns status success, with the count, the verdict
\* and the report it returns for the list without these entries.
C23_UnreadableEntriesSkipped ==
    TallyRead
        => /\ result.status = "success"
           /\ TallyOf(WithoutUnreadable(LogRead)).status = "success"
           /\ result.approvals = TallyOf(WithoutUnreadable(LogRead)).approvals
           /\ result.isApproved = TallyOf(WithoutUnreadable(LogRead)).isApproved
           /\ result.message = TallyOf(WithoutUnreadable(LogRead)).message

\* C23 witness: the log held a non-object entry and an entry without
\* message before an approval, and the approval was counted.
C23_Witness ==
    /\ TallySucceeded
    /\ Len(LogRead) = 3
    /\ LogRead[1] = NonObjectItem
    /\ LogRead[2] = NoMessageItem
    /\ Approves(LogRead[3], acctA)
    /\ result.approvals = 1

\* item is a message whose content starts with neither prefix
Unclassified(item) ==
    /\ item.kind = "message"
    /\ ~ StartsWith(item.message, APPROVE)
    /\ ~ StartsWith(item.message, PROPOSAL)

WithoutUnclassified(log) == SelectSeq(log, LAMBDA item : ~ Unclassified(item))

\* C24: a message whose content starts with neither APPROVE: nor Proposal:
\* never aborts a tally and never changes its outcome: the status is
\* success, and the count, the verdict and the report, its description
\* included, are those of the log without such messages.
C24_UnclassifiedIgnored ==
    TallyRead
        => /\ result.status = "success"
           /\ result.approvals = TallyOf(WithoutUnclassified(LogRead)).approvals
           /\ result.isApproved = TallyOf(WithoutUnclassified(LogRead)).isApproved
           /\ result.message.proposalDescription
                  = TallyOf(WithoutUnclassified(LogRead)).message.proposalDescription
           /\ result.message = TallyOf(WithoutUnclassified(LogRead)).message

\* C24 witness: a message of neither kind came first in the log, before the
\* proposal record and an approval; the tally approved and shows the
\* record's description.
C24_Witness ==
    /\ TallySucceeded
    /\ Len(LogRead) = 3
    /\ Unclassified(LogRead[1])
    /\ LogRead[2] = ProposalRecord
    /\ Approves(LogRead[3], acctA)
    /\ result.isApproved
    /\ result.message.proposalDescription = proposal.description

\* the positions of the messages of log whose content starts with Proposal:
ProposalShaped(log) ==
    { i \in 1..Len(log) : log[i].kind = "message" /\ StartsWith(log[i].message, PROPOSAL) }

\* log up to its first Proposal-shaped message
UpToFirstProposal(log) ==
    SubSeq(log, 1, CHOOSE i \in ProposalShaped(log) : \A j \in ProposalShaped(log) : i <= j)

\* C25: the description of the approved report is taken from the first
\* message in log order whose content starts with Proposal: (it is the one
\* shown for the log cut after that message, so later Proposal-shaped
\* messages never change it); without such a message the tally succeeds and
\* shows the placeholder.
C25_FirstProposalWins ==
    (TallyRead /\ result.isApproved)
        => /\ result.status = "success"
           /\ result.message.kind = "approved"
           /\ IF ProposalShaped(LogRead) = {}
              THEN result.message.proposalDescription = DetailsNotFound
              ELSE LET first == UpToFirstProposal(LogRead)[Len(UpToFirstProposal(LogRead))]
                   IN  /\ result.message.proposalDescription
                              = proposalDescription(UpToFirstProposal(LogRead))
                       /\ first = ProposalRecord
                              => result.message.proposalDescription = <<"d">>
                       /\ first = MessageItem(PROPOSAL \o <<" ", "e">>)
                              => result.message.proposalDescription = <<"e">>

\* C25 witness: the proposal record came first, a Proposal-shaped message
\* with another description after it; the report shows the record's
\* description.
C25_Witness ==
    /\ TallySucceeded
    /\ result.isApproved
    /\ LogRead # <<>>
    /\ LogRead[1] = ProposalRecord
    /\ Cardinality(ProposalShaped(LogRead)) = 2
    /\ \E i \in ProposalShaped(LogRead) : LogRead[i] # ProposalRecord
    /\ result.message.proposalDescription = <<"d">>

\* item decodes as an approval of x: its content has the eight characters
\* APPROVE: at its start, and the rest, without the white space around it,
\* is x
DecodesAsApprovalOf(item, x) ==
    /\ item.kind = "message"
    /\ Len(item.message) >= 8
    /\ <<item.message[1], item.message[2], item.message[3], item.message[4],
         item.message[5], item.message[6], item.message[7], item.message[8]>>
           = <<"A", "P", "P", "R", "O", "V", "E", ":">>
    /\ Trim(SubSeq(item.message, 9, Len(item.message))) = x

\* C26: a message is decoded as an approval iff its content starts with the
\* literal prefix APPROVE: at position 0, in this case; the identifier is the
\* rest with the white space around it trimmed. A tally counts exactly the
\* listed identifiers that some message decodes to; `APPROVE: a ` counts for
\* a, content with a character before the prefix or in lower case counts for
\* nobody, and what submitApproval writes for x decodes to x.
C26_ApprovalDecoding ==
    /\ approvalCount(<<MessageItem(APPROVE \o <<" ", "a", " ">>)>>, <<acctA>>) = 1
    /\ approvalCount(<<MessageItem(<<" ">> \o APPROVE \o <<"b">>)>>, <<acctB>>) = 0
    /\ approvalCount(<<MessageItem(<<"a", "p", "p", "r", "o", "v", "e", ":", "b">>)>>, <<acctB>>) = 0
    /\ \A x \in AccountIds : DecodesAsApprovalOf(MessageItem(approvalMessage(x)), x)
    /\ TallyRead
           => /\ result.status = "success"
              /\ result.approvals
                     = Cardinality({ x \in Range(result.approvers) :
                                       \E i \in 1..Len(LogRead) :
                                           DecodesAsApprovalOf(LogRead[i], x) })

\* C26 witness: the log held `APPROVE: a `, ` APPROVE:b` and `approve:b`
\* for the approvers a and b, and one approval was counted.
C26_Witness ==
    /\ TallySucceeded
    /\ Range(result.approvers) = {acctA, acctB}
    /\ Range(LogRead) = { MessageItem(APPROVE \o <<" ", "a", " ">>),
                          MessageItem(<<" ">> \o APPROVE \o <<"b">>),
                          MessageItem(<<"a", "p", "p", "r", "o", "v", "e", ":", "b">>) }
    /\ result.approvals = 1

\* C31 (as claimed): for a proposal tallied with 1 <= threshold <=
\* |approvers|, once every identifier of approvers has had a successful
\* submitApproval on the log, a successful tally that reads the log returns
\* isApproved = true.
C31_QuorumReachable ==
    (TallySucceeded
        /\ result.threshold \in 1..Len(result.approvers)
        /\ result.topicId \in created
        /\ result.response \in Deliveries(ledger[result.topicId])
        /\ \A x \in Range(result.approvers) :
               \E i \in 1..Len(ledger[result.topicId]) :
                   ledger[result.topicId][i] = MessageItem(approvalMessage(x)))
        => result.isApproved

\* C33: in every successful tally, approvalCount is at most the number of
\* distinct identifiers in approvers and at most the number of APPROVE:
\* messages in the log, and the counted identifiers are all in approvers.
C33_CountBounds ==
    TallySucceeded
        => /\ result.approvals <= Cardinality(Range(result.approvers))
           /\ result.approvals
                  <= Cardinality({ i \in 1..Len(LogRead) :
                                     /\ LogRead[i].kind = "message"
                                     /\ StartsWith(LogRead[i].message, APPROVE) })
           /\ validApprovals(LogRead, result.approvers) \subseteq Range(result.approvers)
           /\ result.approvals = Cardinality(validApprovals(LogRead, result.approvers))
           /\ result.message.kind = "approved"
                  => \A i \in 1..Len(result.message.approvers) :
                         result.message.approvers[i].approved
                             => result.message.approvers[i].approver \in Range(result.approvers)

\* C33 witness: both listed approvers approved, one of them twice; the count
\* is 2, the number of distinct approvers, under 3 APPROVE: messages.
C33_Witness ==
    /\ TallySucceeded
    /\ Range(result.approvers) = {acctA, acctB}
    /\ Len(LogRead) = 3
    /\ \A i \in 1..3 : LogRead[i].kind = "message" /\ StartsWith(LogRead[i].message, APPROVE)
    /\ result.approvals = 2

\* the step is a /linkaccount message handled by the bot
LinkHandled == request'.op = "linkaccount"

\* the account a /linkaccount message names is accepted
LinkAccepted == LinkHandled /\ ~ RejectsAccount(hederaAccountId(request'.text))

\* the two maps hold the same users with the same accounts
MapsAgree ==
    /\ DOMAIN serverUserData = { NumberToString(u) : u \in DOMAIN userData }
    /\ \A u \in DOMAIN userData : serverUserData[NumberToString(u)] = userData[u]

\* C34: after any sequence of /linkaccount messages the bot's map has an entry
\* for a user id exactly when the server's map has one for its string form, both
\* with the account of the last accepted message of that user; a rejected
\* message (no account, or one not starting with 0.0.) changes neither map
C34_LinkMapsAgree ==
    /\ MapsAgree
    /\ [][/\ MapsAgree'
          /\ LinkAccepted =>
                /\ request'.userId \in DOMAIN userData'
                /\ userData'[request'.userId] = hederaAccountId(request'.text)
                /\ \A u \in DOMAIN userData \ {request'.userId} :
                       u \in DOMAIN userData' /\ userData'[u] = userData[u]
          /\ ~ LinkAccepted => UNCHANGED <<userData, serverUserData>>]_vars

\* both users have linked different accounts and the last message was rejected
C34_Witness ==
    /\ request.op = "linkaccount"
    /\ RejectsAccount(hederaAccountId(request.text))
    /\ DOMAIN userData = UserIds
    /\ userData[1] # userData[2]
    /\ serverUserData[<<"2">>] = <<"0", ".", "0", ".", "8">>

\* the step is a request answered by /api/approve
ApiHandled == request'.op = "approve" /\ result'.op \in {"submitApproval", "apiApprove"}

\* the sender of the request has an account in the server's map
SenderLinked ==
    /\ ~ JsFalsy(request'.telegramUserId)
    /\ JsToString(request'.telegramUserId) \in DOMAIN serverUserData

====
